---- MODULE Spec2Model ----
(***************************************************************************)
(* Model of the Modbus RTU transport of the RTU <-> TCP/UDP gateway:       *)
(* the request queue, the serial state machine (sendSerial / recvSerial),  *)
(* the CRC16 engine and the framing of responses towards the clients.      *)
(*                                                                         *)
(* One poll cycle of loop() is  recvUdp/recvTcp ; processRequests ;        *)
(* sendSerial ; recvSerial.  Each function is one action; the environment  *)
(* (time passing, the UART hardware, slaves talking on the bus) may act    *)
(* between any two of them.                                                *)
(***************************************************************************)
EXTENDS Integers, Sequences, FiniteSets, TLC

(***************************************************************************)
(* Bounds of the model (scaled-down sizes and abstract durations).         *)
(***************************************************************************)
\* queue entry-count cap (reqQueueCount, 15 in the sketch)
MaxQueue == 2
\* cumulative payload cap of the queue (reqQueueSize, 256 in the sketch)
MaxQueueBytes == 8
\* size of the UART transmit ring buffer; availableForWrite() is at most one less
SERIAL_BUFFER_SIZE == 3
\* size of the serial frame buffer serialIn (modbusSize, 256 in the sketch)
modbusSize == 7
\* largest configured retry count explored
MaxSerialRetry == 2
\* durations, in ticks of the model's clock: charTimeout < frameDelay < serialTimeout
CharTicks == 1
FrameTicks == 2
TimeoutTicks == 3
\* longest byte sequence the CRC is checked over, bit by bit
MaxCrcLen == 3

(***************************************************************************)
(* Program constants.                                                      *)
(***************************************************************************)
UDP_REQUEST == 255
\* no connection: the value of a WiFiClient that was never assigned
NoClient == -1
SCAN_REQUEST == 254
maxSlaves == 247
scanCommand == <<3, 0, 0, 0, 1>>

IDLE == "IDLE"
SENDING == "SENDING"
DELAY == "DELAY"
WAITING == "WAITING"
States == {IDLE, SENDING, DELAY, WAITING}

(***************************************************************************)
(* Bytes and 16-bit words.                                                 *)
(***************************************************************************)
lowByte(x) == x % 256
highByte(x) == (x \div 256) % 256

Min(a, b) == IF a < b THEN a ELSE b
Max(a, b) == IF a > b THEN a ELSE b

(***************************************************************************)
(* CRC16/Modbus.  calculateCRC folds one byte into the running value: the  *)
(* operator takes the global crc and yields its new value.                 *)
(***************************************************************************)
\* x with the bit of weight w inverted
FlipBit(x, w) == IF (x \div w) % 2 = 0 THEN x + w ELSE x - w

\* x ^ 0xA001: bits 15, 13 and 0 inverted
XorA001(x) == FlipBit(FlipBit(FlipBit(x, 32768), 8192), 1)

\* what the bit of weight w of the byte b adds to c in c ^ b
XorBit(c, b, w) ==
  IF (b \div w) % 2 = 0 THEN 0 ELSE IF (c \div w) % 2 = 0 THEN w ELSE 0 - w

\* crc ^= (uint16_t)b: the byte is folded into the low byte of crc
XorByte(c, b) ==
  c + XorBit(c, b, 1) + XorBit(c, b, 2) + XorBit(c, b, 4) + XorBit(c, b, 8)
    + XorBit(c, b, 16) + XorBit(c, b, 32) + XorBit(c, b, 64) + XorBit(c, b, 128)

\* one round of the loop over the 8 bits: shift right, and XOR 0xA001 if the
\* LSB was set (v is the value of c, computed once)
CRCShift(c) ==
  CHOOSE r \in {(IF v % 2 = 1 THEN XorA001(v \div 2) ELSE v \div 2) : v \in {c}} : TRUE

calculateCRC(c, b) ==
  CHOOSE r \in {CRCShift(CRCShift(CRCShift(CRCShift(CRCShift(CRCShift(CRCShift(CRCShift(
                   XorByte(v, w))))))))) : v \in {c}, w \in {b}} : TRUE

\* calculateCRC called for each byte of s in turn (v is the running value, a
\* uint16_t, computed byte by byte)
RECURSIVE CRCOver(_, _)
CRCOver(c, s) ==
  CHOOSE r \in {(IF v \in 0..65535 /\ t # <<>>
                   THEN CRCOver(calculateCRC(v, Head(t)), Tail(t))
                   ELSE v) : v \in {c}, t \in {s}} : TRUE

\* the value checkCRC leaves in the global crc: 0xFFFF folded over buf[0 .. len-2)
checkCRCValue(buf, len) == CRCOver(65535, SubSeq(buf, 1, len - 2))

\* buf[i] of the C array (0-based); an index below 0 reads the byte `oob`
\* that happens to precede the static buffer
BufAt(buf, i, oob) == IF i < 0 THEN oob ELSE buf[i + 1]

\* the indices of buf that checkCRC reads: the loop over i < len - 2, then
\* buf[len - 1], and buf[len - 2] if the high byte matched
checkCRCReads(buf, len) ==
  (0..(len - 3)) \cup {len - 1}
    \cup (IF highByte(checkCRCValue(buf, len)) = buf[len] THEN {len - 2} ELSE {})

checkCRCHighFirst(buf, len, oob) ==
  /\ highByte(checkCRCValue(buf, len)) = BufAt(buf, len - 2, oob)
  /\ lowByte(checkCRCValue(buf, len)) = BufAt(buf, len - 1, oob)

checkCRC(buf, len, oob) ==
  /\ highByte(checkCRCValue(buf, len)) = BufAt(buf, len - 1, oob)
  /\ lowByte(checkCRCValue(buf, len)) = BufAt(buf, len - 2, oob)

(***************************************************************************)
(* State.                                                                  *)
(***************************************************************************)
VARIABLES
  pc,               \* which function of loop() runs next
  enableRtuOverTcp, \* defaultConfig.enableRtuOverTcp
  serialRetry,      \* defaultConfig.serialRetry
  baud,             \* defaultConfig.baud
  serialConfig,     \* defaultConfig.serialConfig
  charTimeout, frameDelay, \* microseconds, set by startSerial
  serialState,      \* IDLE, SENDING, DELAY, WAITING
  queueHeaders,     \* headers of the queued requests, head first
  queuePDUs,        \* their payload bytes, one flat buffer, head first
  queueRetries,     \* their attempt counters
  slavesResponding, \* the slave health table
  rxNdx, txNdx, rxErr, crc,
  serialIn,         \* the bytes recvSerial has assembled: serialIn[0 .. rxNdx)
  rxDelay, rxTimeout, txDelay, requestTimeout, \* timers: ticks left until isOver()
  txBuf,            \* bytes waiting in the UART transmit buffer
  rxBuf,            \* bytes waiting in the UART receive buffer
  rxLine,           \* bytes of the frame on the bus that have not arrived yet
  clients,          \* the requests the front ends of this run send
  bus,              \* the frames the devices on the bus of this run send
  queueHist,        \* history, per queued request: completed transmissions, timeouts,
                    \* queued requests that arrived before it
  txLine,           \* history: bytes written to the UART for the current transmission
  ethOut,           \* history: frames handed to the network in this poll cycle
  ethTo,            \* history: where each of these frames was written
  currentClient,    \* the TCP connection held in the global currentClient
  lastRecv,         \* history: what recvSerial did in this poll cycle
  rxDuring          \* history: the values serialState had when recvSerial drained the
                    \* bytes serialIn[0 .. rxNdx)

vars == <<pc, enableRtuOverTcp, serialRetry, baud, serialConfig, charTimeout, frameDelay,
          serialState, queueHeaders, queuePDUs,
          queueRetries, slavesResponding, rxNdx, txNdx, rxErr, crc, serialIn,
          rxDelay, rxTimeout, txDelay, requestTimeout, txBuf, rxBuf, rxLine,
          clients, bus, queueHist, txLine, ethOut, ethTo, currentClient, lastRecv,
          rxDuring>>

cfgVars == <<enableRtuOverTcp, serialRetry, clients, bus, baud, serialConfig, charTimeout,
            frameDelay>>
queueVars == <<queueHeaders, queuePDUs, queueRetries, queueHist>>
timerVars == <<rxDelay, rxTimeout, txDelay, requestTimeout>>
rxVars == <<rxNdx, rxErr, serialIn, rxDuring>>
histVars == <<txLine, ethOut, ethTo, lastRecv>>

\* unit ids the clients address: broadcast and two slaves (0x11, 0x12)
UnitIds == {0, 17, 18}

\* rxCount: what the poll added to serialRxCount; crcOk: checkCRC was called
\* and returned true; during: the values serialState had when the bytes of the
\* evaluated frame were drained, each with the head of the queue at that time
NoRecv ==
  [evaluated |-> FALSE, accepted |-> FALSE, timeout |-> FALSE, removed |-> FALSE,
   rxCount |-> 0, crcOk |-> FALSE, reads |-> {}, during |-> {}]

(***************************************************************************)
(* Timers.  sleep() arms a timer, isOver() is true once its time has       *)
(* passed; a timer that was never armed (zero-initialised) is over.        *)
(***************************************************************************)
isOver(t) == t = 0

(***************************************************************************)
(* The requests the front ends enqueue, and the frames seen on the bus.    *)
(***************************************************************************)
\* the CRC bytes as they go on the wire: low byte first
CRCBytes(s) == <<lowByte(CRCOver(65535, s)), highByte(CRCOver(65535, s))>>

Request(tid, uid, client, pdu) == [tid |-> tid, uid |-> uid, clientNum |-> client, pdu |-> pdu]

\* TCP client 0 to unit 0x11
ReqTcp == Request(<<0, 1>>, 17, 0, <<3>>)
\* the same request from a second TCP connection
ReqTcp1 == Request(<<0, 4>>, 17, 1, <<3>>)
\* UDP client to unit 0x12, with a function code >= 0x80
ReqUdp == Request(<<0, 2>>, 18, UDP_REQUEST, <<131>>)
\* broadcast
ReqBroadcast == Request(<<0, 3>>, 0, 0, <<6>>)
\* scan probe of unit 0x11
ReqScan == Request(<<0, 0>>, 17, SCAN_REQUEST, scanCommand)

\* a frame one byte longer than the frame buffer
RECURSIVE Zeros(_)
Zeros(n) == IF n = 0 THEN <<>> ELSE <<0>> \o Zeros(n - 1)

\* response of unit 0x11
FrameOk17 == <<17, 3>> \o CRCBytes(<<17, 3>>)
\* a single byte 0xFF, as line noise produces
FrameFF == <<255>>
\* three bytes with a matching CRC
FrameShort17 == <<17>> \o CRCBytes(<<17>>)
\* response of unit 0x12
FrameOk18 == <<18, 131>> \o CRCBytes(<<18, 131>>)
\* CRC mismatch
FrameBadCrc == <<17, 3, 77, 0>>
\* response of unit 0x11 with two bytes of data, 0x002A
FrameData17 == <<17, 3, 2, 0, 42>> \o CRCBytes(<<17, 3, 2, 0, 42>>)
\* the same response followed by the bytes C2 6E
FrameDataC26E == <<17, 3, 2, 0, 42, 194, 110>>
\* longer than the frame buffer
FrameLong == <<17>> \o Zeros(modbusSize)

\* the runs explored: a transport mode, a retry limit, the requests the front
\* ends send and the frames seen on the bus
Run(rtu, retry, reqs, frames) ==
  [rtu |-> rtu, retry |-> retry, clients |-> reqs, bus |-> frames]

Runs ==
  { Run(FALSE, MaxSerialRetry, {ReqTcp, ReqBroadcast}, {FrameOk17, FrameBadCrc}),
    Run(FALSE, 1, {ReqTcp, ReqUdp}, {FrameOk17, FrameOk18}),
    Run(TRUE, 1, {ReqTcp, ReqScan}, {FrameShort17, FrameLong}),
    Run(FALSE, 1, {ReqTcp}, {FrameData17, FrameDataC26E, FrameFF}),
    Run(FALSE, 1, {ReqTcp, ReqTcp1}, {}) }

(***************************************************************************)
(* The slave health table.  Unit ids outside 1..maxSlaves have no cell.    *)
(***************************************************************************)
getSlaveResponding(tbl, index) ==
  IF index \in DOMAIN tbl THEN tbl[index] ELSE FALSE

setSlaveResponding(tbl, index, value) ==
  IF index \in DOMAIN tbl THEN [tbl EXCEPT ![index] = value] ELSE tbl

(***************************************************************************)
(* The request queue: three buffers kept in step.                          *)
(***************************************************************************)
first(q) == Head(q)

\* payload bytes of the head entry: queuePDUs[0 .. first().PDUlen)
HeadPDU == SubSeq(queuePDUs, 1, first(queueHeaders).PDUlen)

\* deleteRequest(): the head entry leaves all three buffers
deleteHeaders(qh) == Tail(qh)
deletePDUs(qh, qp) == SubSeq(qp, first(qh).PDUlen + 1, Len(qp))
deleteRetries(qr) == Tail(qr)

\* the payload as the front end stores it: in RTU-over-TCP/UDP mode the client's
\* own CRC comes with it
StoredPDU(r) ==
  IF enableRtuOverTcp /\ r.clientNum # SCAN_REQUEST
  THEN r.pdu \o CRCBytes(<<r.uid>> \o r.pdu)
  ELSE r.pdu

Header(r) ==
  [tid |-> r.tid, uid |-> r.uid, PDUlen |-> Len(StoredPDU(r)), clientNum |-> r.clientNum]

\* serialConfig as the Arduino core encodes a frame format: data bits - 5 in
\* bits 1-2, stop bits - 1 in bit 3, parity in bits 4-5 (0 none, 2 even, 3 odd)
SerialConfigOf(data, parity, stop) == parity * 16 + (stop - 1) * 8 + (data - 5) * 2

CharBitsNoParity(cfg) == 1 + (((cfg \div 2) % 4) + 5) + (((cfg \div 8) % 2) + 1)

\* number of bits per character: start bit, data bits, stop bits, parity bit
CharBits(cfg) ==
  1 + (((cfg \div 2) % 4) + 5) + (((cfg \div 8) % 2) + 1)
    + (IF (cfg \div 16) % 4 > 1 THEN 1 ELSE 0)

\* time to send 1 character over serial in microseconds
CharTime(cfg, bd) == (CharBits(cfg) * 1000000) \div bd

\* charTimeout = 1.5 * T and frameDelay = 3.5 * T, converted to unsigned int
CharTimeoutOf(cfg, bd) == IF bd <= 19200 THEN (3 * CharTime(cfg, bd)) \div 2 ELSE 750
FrameDelayOf(cfg, bd) == IF bd <= 19200 THEN (7 * CharTime(cfg, bd)) \div 2 ELSE 1750

\* the state after setup(), in run r
Start(r) ==
  /\ pc = "recvNet"
  /\ baud = 38400
  /\ serialConfig = SerialConfigOf(8, 0, 2)
  /\ charTimeout = CharTimeoutOf(serialConfig, baud)
  /\ frameDelay = FrameDelayOf(serialConfig, baud)
  /\ enableRtuOverTcp = r.rtu
  /\ serialRetry = r.retry
  /\ clients = r.clients
  /\ bus = r.bus
  /\ serialState = IDLE
  /\ queueHeaders = <<>>
  /\ queuePDUs = <<>>
  /\ queueRetries = <<>>
  /\ queueHist = <<>>
  /\ slavesResponding = [u \in UnitIds \ {0} |-> FALSE]
  /\ rxNdx = 0
  /\ rxDuring = {}
  /\ txNdx = 0
  /\ rxErr = FALSE
  /\ crc = 0
  /\ serialIn = <<>>
  /\ rxDelay = 0
  /\ rxTimeout = 0
  /\ txDelay = 0
  /\ requestTimeout = 0
  /\ txBuf = 0
  /\ rxBuf = <<>>
  /\ rxLine = <<>>
  /\ txLine = <<>>
  /\ ethOut = <<>>
  /\ ethTo = <<>>
  /\ currentClient = NoClient
  /\ lastRecv = NoRecv

Init == \E r \in Runs : Start(r)

(***************************************************************************)
(* The environment acts once per poll cycle, after the front ends have     *)
(* read the network.  No function of the cycle reads what another one of   *)
(* the same cycle could not have read (sendSerial tests rxNdx, never the   *)
(* UART), so an event elsewhere in the cycle has the effect of the same    *)
(* event at this point of it or of the next.                               *)
(***************************************************************************)
BetweenPolls == pc = "processRequests"

\* time passes: every running timer comes one tick closer to isOver()
Tick ==
  /\ BetweenPolls
  /\ \E t \in {rxDelay, rxTimeout, txDelay, requestTimeout} : t > 0
  /\ rxDelay' = Max(rxDelay - 1, 0)
  /\ rxTimeout' = Max(rxTimeout - 1, 0)
  /\ txDelay' = Max(txDelay - 1, 0)
  /\ requestTimeout' = Max(requestTimeout - 1, 0)
  /\ UNCHANGED currentClient
  /\ UNCHANGED <<pc, cfgVars, serialState, queueVars, slavesResponding, rxVars, txNdx,
                 crc, txBuf, rxBuf, rxLine, histVars>>

\* the UART shifts one byte of its transmit buffer out
UartTx ==
  /\ BetweenPolls
  /\ txBuf > 0
  /\ txBuf' = txBuf - 1
  /\ UNCHANGED currentClient
  /\ UNCHANGED <<pc, cfgVars, serialState, queueVars, slavesResponding, rxVars, txNdx,
                 crc, timerVars, rxBuf, rxLine, histVars>>

\* a device starts to put a frame on the bus, after the silence that ended the last one
BusFrame ==
  /\ BetweenPolls
  /\ rxLine = <<>> /\ rxBuf = <<>> /\ rxNdx = 0
  /\ rxLine' \in bus
  /\ UNCHANGED currentClient
  /\ UNCHANGED <<pc, cfgVars, serialState, queueVars, slavesResponding, rxVars, txNdx,
                 crc, timerVars, txBuf, rxBuf, histVars>>

\* the UART receives the next bytes of the frame: its first byte alone, or all that is left
UartRx ==
  /\ BetweenPolls
  /\ rxLine # <<>> /\ rxBuf = <<>>
  /\ \E k \in (IF rxLine \in bus THEN {1} ELSE {}) \cup {Len(rxLine)} :
       /\ rxBuf' = SubSeq(rxLine, 1, k)
       /\ rxLine' = SubSeq(rxLine, k + 1, Len(rxLine))
  /\ UNCHANGED currentClient
  /\ UNCHANGED <<pc, cfgVars, serialState, queueVars, slavesResponding, rxVars, txNdx,
                 crc, timerVars, txBuf, histVars>>

(***************************************************************************)
(* recvUdp / recvTcp: a front end appends a request at the tail, unless    *)
(* the entry-count or the byte cap of the queue would be exceeded.         *)
(***************************************************************************)
QueueHasRoom(r) ==
  /\ Len(queueHeaders) < MaxQueue
  /\ Len(queuePDUs) + Len(StoredPDU(r)) <= MaxQueueBytes

\* a request read from a TCP connection (recvTcp leaves that connection in
\* currentClient)
IsTcp(r) == r.clientNum \notin {UDP_REQUEST, SCAN_REQUEST}

RecvNet ==
  /\ pc = "recvNet"
  /\ pc' = "processRequests"
  /\ ethOut' = <<>>
  /\ ethTo' = <<>>
  /\ lastRecv' = NoRecv
  /\ \/ UNCHANGED <<queueVars, currentClient>>
     \/ \E r \in clients :
          /\ QueueHasRoom(r)
          /\ currentClient' = IF IsTcp(r) THEN r.clientNum ELSE currentClient
          /\ queueHeaders' = Append(queueHeaders, Header(r))
          /\ queuePDUs' = queuePDUs \o StoredPDU(r)
          /\ queueRetries' = Append(queueRetries, 0)
          /\ queueHist' = Append(queueHist, [sends |-> 0, timeouts |-> 0,
                                           older |-> Len(queueHeaders)])
  /\ UNCHANGED <<cfgVars, serialState, slavesResponding, rxVars, txNdx, crc, timerVars,
                 txBuf, rxBuf, rxLine, txLine>>

(***************************************************************************)
(* processRequests: with the transport idle and the queue not empty, the   *)
(* requests to responding slaves are served first (requests to slaves      *)
(* that do not respond move to the tail), and sending is triggered.        *)
(***************************************************************************)
RECURSIVE PDUBytes(_, _)
PDUBytes(qh, n) == IF n = 0 THEN 0 ELSE qh[n].PDUlen + PDUBytes(qh, n - 1)

Rotate(s, k) == SubSeq(s, k + 1, Len(s)) \o SubSeq(s, 1, k)

SkippedOne(qh) == IF Len(qh) > 1 THEN 1 ELSE 0

\* how many entries move from the head to the tail
Skipped(qh) ==
  IF \E i \in 1..Len(qh) : getSlaveResponding(slavesResponding, qh[i].uid)
  THEN (CHOOSE i \in 1..Len(qh) :
          /\ getSlaveResponding(slavesResponding, qh[i].uid)
          /\ \A j \in 1..(i - 1) : ~getSlaveResponding(slavesResponding, qh[j].uid)) - 1
  ELSE 0

ProcessRequests ==
  /\ pc = "processRequests"
  /\ pc' = "sendSerial"
  /\ IF serialState = IDLE /\ queueHeaders # <<>>
     THEN LET k == Skipped(queueHeaders) IN
          /\ queueHeaders' = Rotate(queueHeaders, k)
          /\ queuePDUs' = Rotate(queuePDUs, PDUBytes(queueHeaders, k))
          /\ queueRetries' = Rotate(queueRetries, k)
          /\ queueHist' = Rotate(queueHist, k)
          /\ serialState' = SENDING
          /\ txLine' = <<>>
     ELSE UNCHANGED <<queueVars, serialState, txLine>>
  /\ UNCHANGED currentClient
  /\ UNCHANGED <<cfgVars, slavesResponding, rxVars, txNdx, crc, timerVars, txBuf, rxBuf,
                 rxLine, ethOut, ethTo, lastRecv>>

(***************************************************************************)
(* sendSerial.                                                             *)
(***************************************************************************)
availableForWrite(b) == SERIAL_BUFFER_SIZE - 1 - b

CanSendAroundRx == serialState = SENDING /\ (rxNdx = 0 \/ ~isOver(rxDelay))

CanSendOrWaiting == serialState \in {SENDING, WAITING} /\ rxNdx = 0

CanSendWhileReceiving == serialState = SENDING

\* only send when we are not receiving data
CanSend == serialState = SENDING /\ rxNdx = 0

DelayOverNever == FALSE

DelayOver == serialState = DELAY /\ isOver(txDelay)

IsBroadcastNever(h) == FALSE

IsBroadcast(h) == h.uid = 0

\* in Modbus TCP mode (and for a scan probe) the CRC is added here
AddsCRC(h) == ~enableRtuOverTcp \/ h.clientNum = SCAN_REQUEST

NextRetryTwice(r) == r + 2

NextRetry(r) == r + 1

\* crc is a scratch register: every use starts with crc = 0xFFFF, except the
\* continuation of a transmission (txNdx in 1 .. PDUlen), which folds further
\* bytes into the value the last poll left.  The model keeps the value while it
\* can still be read and records 0 otherwise.
CrcKept(c, st, ndx) ==
  IF st = SENDING /\ ndx > 0 /\ ndx <= first(queueHeaders).PDUlen THEN c ELSE 0

\* the history without the head entry; `older` counts the queued entries
\* that were enqueued before an entry
HistPop(qh) ==
  [i \in 1..(Len(qh) - 1) |->
     [qh[i + 1] EXCEPT !.older = IF @ > qh[1].older THEN @ - 1 ELSE @]]

\* the history of the head entry, with one more completed transmission
HistSent(qh) == [qh EXCEPT ![1].sends = @ + 1]
HistTimeout(qh) == [qh EXCEPT ![1].timeouts = @ + 1]

SendBytes ==
  LET h == first(queueHeaders)
      a0 == availableForWrite(txBuf)
      w1 == a0 > 0 /\ txNdx = 0
      out1 == IF w1 THEN <<h.uid>> ELSE <<>>
      crc1 == IF w1 THEN calculateCRC(65535, h.uid) ELSE crc
      a1 == a0 - Len(out1)
      k == IF txNdx < h.PDUlen THEN Min(a1, h.PDUlen - txNdx) ELSE 0
      out2 == SubSeq(queuePDUs, txNdx + 1, txNdx + k)
      crc2 == CRCOver(crc1, out2)
      n2 == txNdx + k
      a2 == a1 - k
      w3 == a2 > 1 /\ n2 = h.PDUlen
      out3 == IF w3 /\ AddsCRC(h) THEN <<lowByte(crc2), highByte(crc2)>> ELSE <<>>
      n3 == IF w3 THEN n2 + 1 ELSE n2
      a3 == a2 - Len(out3)
      drained == a3 = SERIAL_BUFFER_SIZE - 1 /\ n3 > h.PDUlen
  IN
  /\ txBuf' = txBuf + Len(out1) + k + Len(out3)
  /\ crc' = CrcKept(crc2, SENDING, IF drained THEN 0 ELSE n3)
  /\ txLine' = txLine \o out1 \o out2 \o out3
  /\ IF drained
     THEN /\ txNdx' = 0
          /\ txDelay' = FrameTicks
          /\ serialState' = DELAY
          /\ queueHist' = HistSent(queueHist)
     ELSE /\ txNdx' = n3
          /\ UNCHANGED <<txDelay, serialState, queueHist>>
  /\ UNCHANGED <<queueHeaders, queuePDUs, queueRetries, requestTimeout>>

AfterDelay ==
  /\ IF IsBroadcast(first(queueHeaders))
     THEN /\ serialState' = IDLE
          /\ queueHeaders' = deleteHeaders(queueHeaders)
          /\ queuePDUs' = deletePDUs(queueHeaders, queuePDUs)
          /\ queueRetries' = deleteRetries(queueRetries)
          /\ queueHist' = HistPop(queueHist)
          /\ UNCHANGED requestTimeout
     ELSE /\ serialState' = WAITING
          /\ requestTimeout' = TimeoutTicks
          /\ queueRetries' = <<NextRetry(first(queueRetries))>> \o Tail(queueRetries)
          /\ UNCHANGED <<queueHeaders, queuePDUs, queueHist>>
  /\ txLine' = <<>>
  /\ UNCHANGED <<txNdx, crc, txBuf, txDelay>>

SendSerial ==
  /\ pc = "sendSerial"
  /\ pc' = "recvSerial"
  /\ IF CanSend THEN SendBytes
     ELSE IF DelayOver THEN AfterDelay
     ELSE UNCHANGED <<serialState, queueVars, txNdx, crc, txBuf, txLine, txDelay,
                      requestTimeout>>
  /\ UNCHANGED currentClient
  /\ UNCHANGED <<cfgVars, slavesResponding, rxVars, rxDelay, rxTimeout, rxBuf, rxLine,
                 ethOut, ethTo, lastRecv>>

(***************************************************************************)
(* recvSerial.                                                             *)
(***************************************************************************)
\* values the byte in front of serialIn may hold (read by checkCRC when len = 1)
OobBytes == {0, 255}

AcceptFrameAnyState(err, buf, len, oob) ==
  /\ ~err
  /\ checkCRC(buf, len, oob)
  /\ queueHeaders # <<>>
  /\ buf[1] = first(queueHeaders).uid

\* checks: 1) frame without errors; 2) CRC; 3) address against the first request
\* in the queue; 4) only expected responses are forwarded.  (WAITING implies a
\* queued request; it is tested first here so that first() is defined.)
AcceptFrame(err, buf, len, oob) ==
  /\ ~err
  /\ checkCRC(buf, len, oob)
  /\ serialState = WAITING
  /\ buf[1] = first(queueHeaders).uid

MBAPWithCRC(h, len) == <<h.tid[1], h.tid[2], 0, 0, highByte(len + 2), lowByte(len + 2)>>

MBAP(h, len) == <<h.tid[1], h.tid[2], 0, 0, highByte(len), lowByte(len)>>

\* the bytes of an accepted response as they leave towards the client
ResponseBytes(h, buf, len, rtu) ==
  IF rtu THEN SubSeq(buf, 1, len)
  ELSE MBAP(h, len - 2) \o SubSeq(buf, 1, len - 2)

\* the frames an accepted response hands to the network
ResponseOut(h, buf, len, rtu) ==
  IF h.clientNum = UDP_REQUEST
  THEN <<[sink |-> "udp", bytes |-> ResponseBytes(h, buf, len, rtu)]>>
  ELSE IF h.clientNum # SCAN_REQUEST
       THEN <<[sink |-> "tcp", bytes |-> ResponseBytes(h, buf, len, rtu)]>>
       ELSE <<>>

RetriesExhaustedEarly(r) == r + 1 >= serialRetry

RetriesExhaustedLate(r) == r > serialRetry

RetriesExhausted(r) == r >= serialRetry

\* modbus error 11 (Gateway Target Device Failed to Respond)
ExceptionPDU(h, fc) == <<h.uid, (fc + 128) % 256, 11>>

ExceptionBytes(h, fc, rtu) ==
  IF rtu THEN ExceptionPDU(h, fc) \o CRCBytes(ExceptionPDU(h, fc))
  ELSE <<h.tid[1], h.tid[2], 0, 0, 0, 3>> \o ExceptionPDU(h, fc)

\* where recvSerial writes a frame for the head entry: the UDP remote of the
\* entry, or else the connection in currentClient
WrittenTo(h) == IF h.clientNum = UDP_REQUEST THEN UDP_REQUEST ELSE currentClient

ExceptionOut(h, fc, rtu) ==
  IF h.clientNum = UDP_REQUEST
  THEN <<[sink |-> "udp", bytes |-> ExceptionBytes(h, fc, rtu)]>>
  ELSE <<[sink |-> "tcp", bytes |-> ExceptionBytes(h, fc, rtu)]>>

\* the health table after an accepted response from unit `uid`
HealthOnAccept(tbl, uid) == setSlaveResponding(tbl, uid, TRUE)
HealthOnTimeoutKept(tbl, uid) == tbl

\* the health table after a response timeout of the head entry
HealthOnTimeout(tbl, uid) == setSlaveResponding(tbl, uid, FALSE)

\* history: the state of the transport and the head of the queue (none when the
\* queue is empty) at the time recvSerial drains bytes
DrainedAt == [state |-> serialState, head |-> SubSeq(queueHeaders, 1, Min(1, Len(queueHeaders)))]

StateOnAcceptWaiting == WAITING

\* the state after an accepted response
StateOnAccept == IDLE

RecvSerial ==
  /\ pc = "recvSerial"
  /\ pc' = "recvNet"
  /\ \E oob \in OobBytes :
     LET \* drain the UART
         n == Len(rxBuf)
         room == modbusSize - rxNdx
         in1 == serialIn \o SubSeq(rxBuf, 1, Min(n, room))
         ndx1 == rxNdx + Min(n, room)
         err1 == \/ rxErr
                 \/ n > 0 /\ isOver(rxTimeout) /\ rxNdx # 0   \* character timeout
                 \/ n > room                                  \* frame longer than allowed
         rxDelay1 == IF n > 0 THEN FrameTicks ELSE rxDelay
         during1 == rxDuring \cup (IF n > 0 THEN {DrainedAt} ELSE {})
         \* process the assembled frame
         eval == isOver(rxDelay1) /\ ndx1 # 0
         accept == eval /\ AcceptFrame(err1, in1, ndx1, oob)
         st1 == IF accept THEN StateOnAccept ELSE serialState
         \* deal with response timeouts
         timeout == st1 = WAITING /\ isOver(requestTimeout)
         h == first(queueHeaders)
         exhausted == timeout /\ RetriesExhausted(first(queueRetries))
         pop == (accept \/ exhausted) /\ queueHeaders # <<>>
     IN
     /\ rxBuf' = <<>>
     /\ rxDelay' = rxDelay1
     /\ rxTimeout' = IF n > 0 THEN CharTicks ELSE rxTimeout
     /\ rxNdx' = IF eval THEN 0 ELSE ndx1
     /\ rxErr' = IF eval THEN FALSE ELSE err1
     /\ serialIn' = IF eval THEN <<>> ELSE in1
     /\ rxDuring' = IF eval THEN {} ELSE during1
     /\ crc' = CrcKept(IF exhausted THEN CRCOver(65535, ExceptionPDU(h, queuePDUs[1]))
                        ELSE IF eval /\ ~err1 THEN checkCRCValue(in1, ndx1)
                        ELSE crc,
                        serialState, txNdx)
     /\ slavesResponding' =
          IF accept THEN HealthOnAccept(slavesResponding, in1[1])
          ELSE IF timeout THEN HealthOnTimeout(slavesResponding, h.uid)
          ELSE slavesResponding
     /\ ethOut' = ethOut
                  \o (IF accept THEN ResponseOut(h, in1, ndx1, enableRtuOverTcp) ELSE <<>>)
                  \o (IF exhausted THEN ExceptionOut(h, queuePDUs[1], enableRtuOverTcp)
                      ELSE <<>>)
     /\ ethTo' = ethTo
                 \o (IF accept /\ h.clientNum # SCAN_REQUEST THEN <<WrittenTo(h)>> ELSE <<>>)
                 \o (IF exhausted THEN <<WrittenTo(h)>> ELSE <<>>)
     /\ IF pop
        THEN /\ queueHeaders' = deleteHeaders(queueHeaders)
             /\ queuePDUs' = deletePDUs(queueHeaders, queuePDUs)
             /\ queueRetries' = deleteRetries(queueRetries)
             /\ queueHist' = HistPop(queueHist)
        ELSE /\ UNCHANGED <<queueHeaders, queuePDUs, queueRetries>>
             /\ queueHist' = IF timeout THEN HistTimeout(queueHist) ELSE queueHist
     /\ serialState' = IF timeout THEN IDLE ELSE st1
     /\ lastRecv' = [evaluated |-> eval, accepted |-> accept, timeout |-> timeout,
                     removed |-> pop, rxCount |-> IF eval THEN ndx1 ELSE 0,
                     crcOk |-> eval /\ ~err1 /\ checkCRC(in1, ndx1, oob),
                     reads |-> IF eval /\ ~err1
                               THEN checkCRCReads(in1, ndx1)
                                      \cup (IF checkCRC(in1, ndx1, oob) THEN {0} ELSE {})
                               ELSE {},
                     during |-> IF eval THEN during1 ELSE {}]
  /\ UNCHANGED currentClient
  /\ UNCHANGED <<cfgVars, txNdx, txDelay, requestTimeout, txBuf, rxLine, txLine>>

Next ==
  \/ RecvNet
  \/ ProcessRequests
  \/ SendSerial
  \/ RecvSerial
  \/ Tick
  \/ UartTx
  \/ BusFrame
  \/ UartRx

Spec == Init /\ [][Next]_vars

TypeOK ==
  /\ pc \in {"startSerial", "recvNet", "processRequests", "sendSerial", "recvSerial"}
  /\ serialState \in States
  /\ Len(queueHeaders) <= MaxQueue
  /\ Len(queueRetries) = Len(queueHeaders)
  /\ Len(queueHist) = Len(queueHeaders)
  /\ Len(queuePDUs) = PDUBytes(queueHeaders, Len(queueHeaders))
  /\ rxNdx = Len(serialIn)
  /\ rxNdx \in 0..modbusSize
  /\ txBuf \in 0..(SERIAL_BUFFER_SIZE - 1)
  /\ crc \in 0..65535
  /\ serialState # IDLE => queueHeaders # <<>>

(***************************************************************************)
(* Properties.                                                             *)
(***************************************************************************)
IsPrefix(a, b) == Len(a) <= Len(b) /\ SubSeq(b, 1, Len(a)) = a

\* a step of the transport wrote to the UART
Wrote == txBuf' > txBuf \/ Len(txLine') > Len(txLine)

\* a step took an entry out of the queue
Removed == Len(queueHeaders') < Len(queueHeaders)

\* the head entry left all three buffers, and nothing else changed in them
HeadPopped ==
  /\ queueHeaders' = Tail(queueHeaders)
  /\ queuePDUs' = SubSeq(queuePDUs, Head(queueHeaders).PDUlen + 1, Len(queuePDUs))
  /\ queueRetries' = Tail(queueRetries)

\* C1: bytes are written to the serial line only while the transport state is
\* Sending, and only by the send step: nothing is written while the state is
\* Idle, Delay or Waiting, so nothing goes on the line between the end of a
\* transmission and the resolution of the attempt.
C1_WritesOnlyWhileSending ==
  [][Wrote => (serialState = SENDING /\ pc = "sendSerial")]_vars

\* C1 witness: the send step has written bytes of a request, in state Sending
C1_Witness ==
  /\ pc = "recvSerial"
  /\ serialState = SENDING
  /\ txLine # <<>>
  /\ txBuf > 0

\* the unit id and the payload of the head entry, as they go on the line
HeadImage == <<Head(queueHeaders).uid>> \o SubSeq(queuePDUs, 1, Head(queueHeaders).PDUlen)

\* (a) a validated matching response was just accepted while Waiting
RemovalByResponse ==
  /\ pc = "recvSerial"
  /\ serialState = WAITING
  /\ lastRecv'.accepted

\* (b) a response timeout fired while Waiting with the retries used up
RemovalByExhaustion ==
  /\ pc = "recvSerial"
  /\ serialState = WAITING
  /\ requestTimeout = 0
  /\ Head(queueRetries) >= serialRetry

\* (c) the head is a broadcast and the delay after its transmission has elapsed
RemovalOfBroadcast ==
  /\ pc = "sendSerial"
  /\ serialState = DELAY
  /\ txDelay = 0
  /\ Head(queueHeaders).uid = 0

\* C2: only the head entry is transmitted (what is written is the unit id and
\* the payload of the head, which stays the head), and an entry leaves the queue
\* only as the head and only (a) on an accepted response while Waiting, (b) on a
\* response timeout while Waiting with the retry counter at the maximum, or (c) as
\* a broadcast whose inter-frame delay has elapsed.
C2_HeadOnly ==
  [][ /\ Wrote =>
           /\ queueHeaders' = queueHeaders /\ queuePDUs' = queuePDUs
           /\ IsPrefix(SubSeq(txLine', 1, Min(Len(txLine'), Len(HeadImage))), HeadImage)
      /\ Removed =>
           /\ HeadPopped
           /\ RemovalByResponse \/ RemovalByExhaustion \/ RemovalOfBroadcast
    ]_vars

\* C2 witness: a second entry waits behind a head that is under way, and the
\* head has been removed after its retries ran out
C2_Witness ==
  /\ lastRecv.timeout /\ lastRecv.removed
  /\ queueHeaders # <<>>
  /\ serialState = IDLE

\* the last two bytes of a frame are the CRC16 of the bytes before them
CRCVerifies(f) ==
  /\ Len(f) >= 2
  /\ SubSeq(f, Len(f) - 1, Len(f)) = CRCBytes(SubSeq(f, 1, Len(f) - 2))

\* C3: a frame is accepted as a response only if, when it is evaluated, it is
\* not flagged invalid, its CRC verifies, its first byte is the unit id of the
\* head entry and the transport state is Waiting.
C3_AcceptOnlyValid ==
  [][lastRecv'.accepted =>
       /\ pc = "recvSerial"
       /\ ~rxErr
       /\ rxNdx = Len(serialIn) /\ CRCVerifies(serialIn)
       /\ queueHeaders # <<>> /\ serialIn[1] = Head(queueHeaders).uid
       /\ serialState = WAITING
    ]_vars

\* C3 witness: a frame has just been accepted and handed to a client
C3_Witness == lastRecv.accepted /\ ethOut # <<>>

\* the transitions of the transport state for a head that is no broadcast
NonBroadcastOrder ==
  \/ serialState = IDLE /\ serialState' = SENDING
  \/ serialState = SENDING /\ serialState' = DELAY
  \/ serialState = DELAY /\ serialState' = WAITING
  \/ serialState = WAITING /\ serialState' = IDLE

\* C4: for a head entry that is no broadcast the transport state moves Idle,
\* Sending, Delay, Waiting in that order, no state skipped; when a response is
\* accepted the state goes from Waiting to Idle and the head entry, and that
\* entry only, leaves the queue.
C4_StateOrder ==
  [][ /\ (serialState' # serialState /\ Head(queueHeaders).uid # 0) => NonBroadcastOrder
      /\ lastRecv'.accepted =>
           /\ serialState = WAITING /\ serialState' = IDLE
           /\ HeadPopped
    ]_vars

\* C4 witness: a response to a request that is no broadcast has been accepted,
\* after the request went through Sending, Delay and Waiting once
C4_Witness ==
  /\ lastRecv.accepted
  /\ serialState = IDLE
  /\ queueHeaders = <<>>
  /\ pc = "recvNet"

\* the synthesized exception frames among the frames of this poll cycle: the
\* last byte of their PDU is the exception code 0x0B
IsException(f) ==
  IF enableRtuOverTcp
  THEN Len(f.bytes) = 5 /\ f.bytes[3] = 11
  ELSE Len(f.bytes) = 9 /\ f.bytes[9] = 11

\* C5: with the maximum retry count N = serialRetry >= 1, a head entry that is
\* no broadcast and gets no accepted response is transmitted N times and no more:
\* the attempt that enters Waiting for the k-th time carries the retry counter
\* k, a response timeout before the N-th leaves the entry in place and emits
\* nothing, and the N-th removes the entry and emits one exception frame 0x0B.
C5_RetryAccounting ==
  [][ /\ \A i \in 1..Len(queueHist) : queueHist[i].sends <= serialRetry
      /\ (serialState = DELAY /\ serialState' = WAITING) =>
           /\ queueRetries'[1] = queueHist'[1].sends
           /\ queueRetries'[1] = queueHist'[1].timeouts + 1
      /\ lastRecv'.timeout =>
           IF queueHist[1].timeouts + 1 = serialRetry
           THEN /\ queueHist[1].sends = serialRetry
                /\ HeadPopped
                /\ Len(ethOut') = 1 /\ IsException(ethOut'[1])
           ELSE /\ queueHist[1].timeouts + 1 < serialRetry
                /\ UNCHANGED <<queueHeaders, queuePDUs, queueRetries>>
                /\ ethOut' = <<>>
                /\ serialState' = IDLE
    ]_vars

\* C5 witness: with N >= 2, the N-th timeout has removed the entry and one
\* exception frame has been emitted
C5_Witness ==
  /\ serialRetry >= 2
  /\ lastRecv.timeout /\ lastRecv.removed
  /\ Len(ethOut) = 1 /\ IsException(ethOut[1])

\* C6: the retry counter of a queued entry changes only by +1 steps, it
\* increases once per response timeout the entry suffers (the step is taken
\* when the attempt that may time out enters Waiting: the counter is the number
\* of timeouts suffered, plus one while the transport waits for the response),
\* and it never exceeds the configured maximum while the entry is queued.
C6_RetryCounter ==
  [][ /\ \A i \in 1..Len(queueRetries) :
           /\ queueRetries[i] <= serialRetry
           /\ queueRetries[i] = queueHist[i].timeouts
                                + (IF i = 1 /\ serialState = WAITING THEN 1 ELSE 0)
      /\ (queueHeaders' = queueHeaders /\ queueRetries' # queueRetries) =>
           /\ queueRetries' = [queueRetries EXCEPT ![1] = @ + 1]
           /\ serialState = DELAY /\ serialState' = WAITING
    ]_vars

\* C6 witness: an entry waits for its response with the counter at the maximum,
\* after at least one timeout
C6_Witness ==
  /\ serialState = WAITING
  /\ serialRetry >= 2
  /\ queueRetries[1] = serialRetry
  /\ queueHist[1].timeouts = serialRetry - 1

\* C7: a broadcast (unit id 0) at the head is transmitted once, never enters
\* Waiting, and is removed when the inter-frame delay after its transmission
\* has elapsed (Delay to Idle); while it is the head nothing is sent to a
\* client, no retry counter and no health flag changes, whatever arrives on
\* the serial line.
C7_Broadcast ==
  [][ (queueHeaders # <<>> /\ Head(queueHeaders).uid = 0) =>
        /\ serialState # WAITING /\ serialState' # WAITING
        /\ queueHist[1].sends <= 1
        /\ queueRetries[1] = 0
        /\ ethOut' = <<>>
        /\ slavesResponding' = slavesResponding
        /\ (serialState = DELAY /\ serialState' # DELAY) =>
             /\ txDelay = 0
             /\ serialState' = IDLE
             /\ queueHist[1].sends = 1
             /\ HeadPopped
        /\ Removed => serialState = DELAY
        /\ ~Removed => \/ queueRetries' = queueRetries
                       \/ queueHeaders' # queueHeaders
    ]_vars

\* C7 witness: a broadcast has been transmitted and waits out the inter-frame
\* delay while bytes of a frame have arrived on the serial line
C7_Witness ==
  /\ queueHeaders # <<>> /\ Head(queueHeaders).uid = 0
  /\ serialState = DELAY
  /\ rxNdx > 0

\* the frame recvSerial evaluates in this step: the evaluation runs once the
\* inter-frame silence has passed, on the bytes assembled before
EvaluatedFrame == serialIn

\* the bytes the claim expects for an accepted frame F of a head entry h
Translated(h, F) ==
  IF enableRtuOverTcp THEN F
  ELSE <<h.tid[1], h.tid[2], 0, 0, highByte(Len(F) - 2), lowByte(Len(F) - 2)>>
       \o SubSeq(F, 1, Len(F) - 2)

\* the client's side of the head entry
SinkOf(h) == IF h.clientNum = UDP_REQUEST THEN "udp" ELSE "tcp"

\* C8 as stated, its example: the serial response 11 03 02 00 2A C2 6E to a
\* request of unit 0x11 with transaction id 0x0001 gives, in plain mode,
\* 00 01 00 00 00 05 11 03 02 00 2A
C8_ExampleC26E ==
  [][ ( /\ lastRecv'.evaluated
        /\ EvaluatedFrame = <<17, 3, 2, 0, 42, 194, 110>>
        /\ ~rxErr
        /\ serialState = WAITING
        /\ Head(queueHeaders).uid = 17 /\ Head(queueHeaders).tid = <<0, 1>>
        /\ ~enableRtuOverTcp )
      => ethOut' = <<[sink |-> "tcp", bytes |-> <<0, 1, 0, 0, 0, 5, 17, 3, 2, 0, 42>>]>>
    ]_vars

\* C8 (amended): for an accepted frame F of length L and a head entry with
\* transaction id (t0, t1) of a TCP or UDP client, the one frame handed to the
\* client is t0, t1, 0, 0, high byte of L-2, low byte of L-2, F[0..L-2) in plain
\* mode, and F[0..L) in RTU-over-TCP/UDP mode; the response 11 03 02 00 2A with
\* its CRC, F8 58, to a request with transaction id 0x0001 is accepted and gives
\* 00 01 00 00 00 05 11 03 02 00 2A in plain mode and the unchanged 7 bytes in
\* RTU-over-TCP mode.
C8_WireTranslation ==
  [][ /\ (lastRecv'.accepted /\ Head(queueHeaders).clientNum # SCAN_REQUEST) =>
           ethOut' = <<[sink |-> SinkOf(Head(queueHeaders)),
                        bytes |-> Translated(Head(queueHeaders), EvaluatedFrame)]>>
      /\ ( /\ lastRecv'.evaluated
           /\ EvaluatedFrame = <<17, 3, 2, 0, 42, 248, 88>>
           /\ ~rxErr
           /\ serialState = WAITING
           /\ Head(queueHeaders).uid = 17 /\ Head(queueHeaders).tid = <<0, 1>> )
         => /\ lastRecv'.accepted
            /\ ethOut' = <<[sink |-> "tcp",
                            bytes |-> IF enableRtuOverTcp
                                      THEN <<17, 3, 2, 0, 42, 248, 88>>
                                      ELSE <<0, 1, 0, 0, 0, 5, 17, 3, 2, 0, 42>>]>>
    ]_vars

\* C8 witness: the response 11 03 02 00 2A F8 58 has been accepted and
\* translated for a plain Modbus TCP client
C8_Witness ==
  /\ lastRecv.accepted
  /\ ~enableRtuOverTcp
  /\ ethOut = <<[sink |-> "tcp", bytes |-> <<0, 1, 0, 0, 0, 5, 17, 3, 2, 0, 42>>]>>

\* f bitwise-OR 0x80, for a byte f
Or80(f) == IF f >= 128 THEN f ELSE f + 128

\* C9: when the retries of a head entry with unit id u and function code f are
\* exhausted, the failure PDU routed to the client is u, f bitwise-OR 0x80,
\* 0x0B, and in plain mode the header tid_hi, tid_lo, 0, 0, 0, 3 precedes it.
C9_ExceptionPDU ==
  [][ (lastRecv'.timeout /\ lastRecv'.removed) =>
        /\ Len(ethOut') = 1
        /\ LET h == Head(queueHeaders)
               pdu == <<h.uid, Or80(queuePDUs[1]), 11>>
               out == ethOut'[1].bytes
           IN IF enableRtuOverTcp
              THEN SubSeq(out, 1, 3) = pdu
              ELSE out = <<h.tid[1], h.tid[2], 0, 0, 0, 3>> \o pdu
    ]_vars

\* C10 as stated: a response timeout that leaves retries (the entry is not
\* removed) leaves every health flag unchanged
C10_TimeoutWithRetriesKeepsFlags ==
  [][(lastRecv'.timeout /\ ~lastRecv'.removed) => slavesResponding' = slavesResponding]_vars

\* C10 (amended): the responding flag of a unit changes only when the receive
\* step resolves an attempt for that unit: it is set to true when a response
\* from that unit is accepted, and it is set to false on every response timeout
\* of a head entry for that unit, whether retries remain (the entry stays) or
\* are exhausted (the entry is removed); every other step leaves every flag
\* unchanged.
C10_HealthFlags ==
  [][ /\ lastRecv'.accepted =>
           slavesResponding' = [slavesResponding EXCEPT ![Head(queueHeaders).uid] = TRUE]
      /\ lastRecv'.timeout =>
           slavesResponding' = [slavesResponding EXCEPT ![Head(queueHeaders).uid] = FALSE]
      /\ ~(lastRecv'.accepted \/ lastRecv'.timeout) => slavesResponding' = slavesResponding
    ]_vars

\* C10 witness: a unit that had responded is flagged as not responding after a
\* timeout that left retries to its request
C10_Witness ==
  /\ lastRecv.timeout /\ ~lastRecv.removed
  /\ queueHeaders # <<>>
  /\ ~slavesResponding[Head(queueHeaders).uid]
  /\ queueRetries[1] < serialRetry

\* recvSerial evaluates the assembled frame and rejects it (and the response
\* timeout does not fire in the same poll)
Rejected == lastRecv'.evaluated /\ ~lastRecv'.accepted /\ ~lastRecv'.timeout

\* what the claim says a rejection leaves alone
RejectionKeeps ==
  /\ serialState' = serialState
  /\ UNCHANGED <<queueHeaders, queuePDUs, queueRetries>>
  /\ slavesResponding' = slavesResponding
  /\ requestTimeout' = requestTimeout
  /\ ethOut' = ethOut

\* C11: a rejected frame leaves the transport state, the queue, the retry
\* counters, the health flags and the armed response timeout unchanged and
\* writes nothing to a client; the only effects of the evaluation are the frame
\* length added to serialRxCount and the receive index and error flag cleared
\* (so the CRC register the send path computes with is left as it was).
C11_RejectionOnlyCounts ==
  [][ Rejected =>
        /\ RejectionKeeps
        /\ lastRecv'.rxCount = rxNdx /\ rxNdx' = 0 /\ rxErr' = FALSE
        /\ UNCHANGED <<crc, txNdx, txBuf, txDelay, rxTimeout, rxDelay>>
    ]_vars

\* the part of C11 that holds of the code: all but the CRC register
C11_RejectionButCrc ==
  [][ Rejected =>
        /\ RejectionKeeps
        /\ lastRecv'.rxCount = rxNdx /\ rxNdx' = 0 /\ rxErr' = FALSE
        /\ UNCHANGED <<txNdx, txBuf, txDelay, rxTimeout, rxDelay>>
    ]_vars

Reordered ==
  /\ Len(queueHeaders') = Len(queueHeaders)
  /\ \E i \in 1..Len(queueHeaders) : queueHeaders'[i] # queueHeaders[i]

Responds(h) == h.uid \in DOMAIN slavesResponding /\ slavesResponding[h.uid]

CrcByteValues == {0, 17, 255}

RECURSIVE SeqsOf(_, _)
SeqsOf(S, n) ==
  IF n = 0 THEN {<<>>}
  ELSE {<<>>} \cup {<<x>> \o t : x \in S, t \in SeqsOf(S, n - 1)}

\* the byte sequences B, of length 1 .. MaxCrcLen
CrcInputs == SeqsOf(CrcByteValues, MaxCrcLen) \ {<<>>}

BitWeights == {1, 2, 4, 8, 16, 32, 64, 128}

\* the transport waits for the response of unit B[0], and the frame B with
\* its CRC is assembled and due for evaluation
InitCRC ==
  \E B \in CrcInputs :
    /\ pc = "recvSerial"
    /\ baud = 38400
    /\ serialConfig = SerialConfigOf(8, 0, 2)
    /\ charTimeout = CharTimeoutOf(serialConfig, baud)
    /\ frameDelay = FrameDelayOf(serialConfig, baud)
    /\ enableRtuOverTcp = FALSE
    /\ serialRetry = 1
    /\ clients = {}
    /\ bus = {B \o CRCBytes(B)}
    /\ serialState = WAITING
    /\ queueHeaders = <<[tid |-> <<0, 1>>, uid |-> B[1], PDUlen |-> 1, clientNum |-> 0]>>
    /\ queuePDUs = <<3>>
    /\ queueRetries = <<1>>
    /\ queueHist = <<[sends |-> 1, timeouts |-> 0, older |-> 0]>>
    /\ slavesResponding = [u \in UnitIds \ {0} |-> FALSE]
    /\ serialIn = B \o CRCBytes(B)
    /\ rxNdx = Len(B) + 2
    /\ rxDuring = {WAITING}
    /\ txNdx = 0
    /\ rxErr = FALSE
    /\ crc = 0
    /\ rxDelay = 0
    /\ rxTimeout = 0
    /\ txDelay = 0
    /\ requestTimeout = TimeoutTicks
    /\ txBuf = 0
    /\ rxBuf = <<>>
    /\ rxLine = <<>>
    /\ txLine = <<>>
    /\ ethOut = <<>>
  /\ ethTo = <<>>
  /\ currentClient = NoClient
    /\ lastRecv = NoRecv

\* one bit of B was inverted on the line; the CRC bytes arrived as sent
FlipOneBit ==
  /\ pc = "recvSerial"
  /\ serialIn \in bus
  /\ \E i \in 1..(rxNdx - 2), w \in BitWeights :
       serialIn' = [serialIn EXCEPT ![i] = FlipBit(@, w)]
  /\ UNCHANGED currentClient
  /\ UNCHANGED <<pc, cfgVars, serialState, queueVars, slavesResponding, rxNdx, txNdx,
                 rxErr, rxDuring, crc, timerVars, txBuf, rxBuf, rxLine, histVars>>

NextCRC == FlipOneBit \/ RecvSerial

SpecCRC == InitCRC /\ [][NextCRC]_vars

\* C13: checkCRC returns true on B followed by the CRC16/Modbus of B, low
\* byte first, and false on the same buffer with any single bit of B inverted.
C13_CRCDetectsBitFlip ==
  [][ (pc = "recvSerial" /\ pc' = "recvNet") =>
        /\ lastRecv'.evaluated
        /\ lastRecv'.crcOk <=> serialIn \in bus
    ]_vars

\* C13 witness: a frame with one inverted bit was evaluated, and checkCRC
\* returned false
C13_Witness ==
  /\ lastRecv.evaluated
  /\ ~lastRecv.crcOk
  /\ serialState = WAITING
  /\ queueHeaders[1].uid = 255

(***************************************************************************)
(* startSerial on its own, for the baud rates and frame formats of the     *)
(* settings.                                                               *)
(***************************************************************************)
Bauds == {300, 1200, 2400, 4800, 9600, 19200, 38400, 57600, 115200}
DataBits == {5, 6, 7, 8}
Parities == {0, 2, 3}
StopBits == {1, 2}

\* setup() has read the settings and is about to call startSerial
InitSerial ==
  /\ pc = "startSerial"
  /\ baud \in Bauds
  /\ \E d \in DataBits, p \in Parities, s \in StopBits :
       serialConfig = SerialConfigOf(d, p, s)
  /\ charTimeout = 0
  /\ frameDelay = 0
  /\ enableRtuOverTcp = FALSE
  /\ serialRetry = 1
  /\ clients = {}
  /\ bus = {}
  /\ serialState = IDLE
  /\ queueHeaders = <<>>
  /\ queuePDUs = <<>>
  /\ queueRetries = <<>>
  /\ queueHist = <<>>
  /\ slavesResponding = [u \in UnitIds \ {0} |-> FALSE]
  /\ rxNdx = 0
  /\ rxDuring = {}
  /\ txNdx = 0
  /\ rxErr = FALSE
  /\ crc = 0
  /\ serialIn = <<>>
  /\ rxDelay = 0
  /\ rxTimeout = 0
  /\ txDelay = 0
  /\ requestTimeout = 0
  /\ txBuf = 0
  /\ rxBuf = <<>>
  /\ rxLine = <<>>
  /\ txLine = <<>>
  /\ ethOut = <<>>
  /\ ethTo = <<>>
  /\ currentClient = NoClient
  /\ lastRecv = NoRecv

StartSerial ==
  /\ pc = "startSerial"
  /\ pc' = "recvNet"
  /\ charTimeout' = CharTimeoutOf(serialConfig, baud)
  /\ frameDelay' = FrameDelayOf(serialConfig, baud)
  /\ UNCHANGED currentClient
  /\ UNCHANGED <<enableRtuOverTcp, serialRetry, clients, bus, baud, serialConfig,
                 serialState, queueVars, slavesResponding, rxVars, txNdx, crc, timerVars,
                 txBuf, rxBuf, rxLine, histVars>>

SpecSerial == InitSerial /\ [][StartSerial]_vars

\* |a - b| <= d
Within(a, b, d) == a - b <= d /\ b - a <= d

WireFrame ==
  HeadImage \o (IF AddsCRC(first(queueHeaders)) THEN CRCBytes(HeadImage) ELSE <<>>)

Sending2Delay == serialState = SENDING /\ serialState' = DELAY

\* C15: whatever room the transmit buffer offers from poll to poll, the bytes
\* written between entering Sending and the Sending-to-Delay transition are
\* exactly the unit id once, the payload bytes in order once each, and in plain
\* Modbus mode the CRC16 of those bytes, low byte first (nothing more for a
\* client request in RTU-over-TCP mode); the transition is made only when all
\* of them are written and the transmit buffer is empty.
C15_SendsExactFrame ==
  [][ (pc = "sendSerial" /\ serialState = SENDING) =>
        /\ IsPrefix(txLine', WireFrame)
        /\ Sending2Delay => (txLine' = WireFrame /\ txBuf' = 0)
    ]_vars

\* what holds of a transmission: unit id once, payload once, as many bytes as
\* the frame has, the transition only with everything written and drained
C15_FrameButCrc ==
  [][ (pc = "sendSerial" /\ serialState = SENDING) =>
        /\ IsPrefix(SubSeq(txLine', 1, Min(Len(txLine'), Len(HeadImage))), HeadImage)
        /\ Len(txLine') <= Len(WireFrame)
        /\ Sending2Delay => (Len(txLine') = Len(WireFrame) /\ txBuf' = 0)
    ]_vars

\* a frame is being received: bytes were read and are not evaluated yet
Receiving == rxNdx # 0

\* C16: a byte received from the serial line while the transport is Sending
\* stops the send path: from the poll in which the receive index becomes
\* non-zero until the frame is evaluated and the index is back at zero, no
\* further byte of the request is written and no Sending-to-Delay transition
\* is made.
C16_ReceivingPausesSend ==
  [][ (serialState = SENDING /\ Receiving) =>
        /\ ~Wrote
        /\ txNdx' = txNdx
        /\ serialState' = SENDING
    ]_vars

\* C16 witness: the send step has run with part of the request written, room
\* in the transmit buffer and a frame being received, and wrote nothing
C16_Witness ==
  /\ pc = "recvSerial"
  /\ serialState = SENDING
  /\ Receiving
  /\ txNdx = 1
  /\ txLine = <<17, 3>>
  /\ availableForWrite(txBuf) > 1

(***************************************************************************)
(* Progress.  loop() runs forever, so each of its four steps is taken      *)
(* again and again; time passes and the UART shifts its transmit buffer    *)
(* out whenever it holds a byte.  Frames on the bus are finite, and a new  *)
(* one starts only after the last one was evaluated.                       *)
(***************************************************************************)
LiveRuns ==
  { Run(FALSE, 1, {ReqTcp, ReqUdp}, {FrameOk18}),
    Run(FALSE, MaxSerialRetry, {ReqTcp, ReqBroadcast}, {FrameOk17}) }

InitLive == \E r \in LiveRuns : Start(r)

Fairness ==
  /\ WF_vars(RecvNet)
  /\ WF_vars(ProcessRequests)
  /\ WF_vars(SendSerial)
  /\ WF_vars(RecvSerial)
  /\ SF_vars(Tick)
  /\ SF_vars(UartTx)

SpecLive == InitLive /\ [][Next]_vars /\ Fairness

\* the request r is at the head of the queue
HeadIs(r) == queueHeaders # <<>> /\ first(queueHeaders) = Header(r)

Originator(h) == IF h.clientNum = UDP_REQUEST THEN UDP_REQUEST ELSE h.clientNum

\* a step of recvSerial takes a request of a TCP or UDP client from the queue
ClientEntryRemoved == pc = "recvSerial" /\ Removed /\ Head(queueHeaders).clientNum # SCAN_REQUEST

C18_OneFramePerEntry ==
  [][ pc = "recvSerial" =>
        IF ClientEntryRemoved
        THEN /\ Len(ethOut') = 1
             /\ ethTo' = <<WrittenTo(Head(queueHeaders))>>
             /\ IsException(ethOut'[1]) <=> lastRecv'.timeout
             /\ lastRecv'.accepted # lastRecv'.timeout
             /\ lastRecv'.timeout => queueHist[1].timeouts + 1 = serialRetry
        ELSE ~Removed => ethOut' = <<>>
    ]_vars

\* the entry at the head is a scan probe
ScanAtHead == queueHeaders # <<>> /\ Head(queueHeaders).clientNum = SCAN_REQUEST

\* C19: for a head entry that is a scan probe (client identifier SCAN_REQUEST)
\* no byte is written to a TCP connection or UDP destination, neither when a
\* valid response is accepted nor when its retries are exhausted; the probe
\* only updates the slave-health flag and is removed.
C19_ScanWritesNothing ==
  [][ (pc = "recvSerial" /\ ScanAtHead) =>
        /\ \A i \in 1..Len(ethTo') : ethTo'[i] = NoClient
        /\ Removed =>
             /\ HeadPopped
             /\ slavesResponding' =
                  [slavesResponding EXCEPT ![Head(queueHeaders).uid] = lastRecv'.accepted]
    ]_vars

\* what holds for a scan probe: an accepted response is not forwarded
C19_ScanResponseSilent ==
  [][ (pc = "recvSerial" /\ ScanAtHead /\ lastRecv'.accepted) =>
        /\ ethOut' = <<>> /\ ethTo' = <<>>
        /\ HeadPopped
        /\ slavesResponding' = [slavesResponding EXCEPT ![Head(queueHeaders).uid] = TRUE]
    ]_vars

(***************************************************************************)
(* Short frames.                                                           *)
(***************************************************************************)
\* recvSerial has evaluated a frame in this step
Evaluated == pc = "recvSerial" /\ lastRecv'.evaluated

\* C20: a received frame of fewer than 4 bytes (too short for unit id,
\* function code and 2 CRC bytes) is never accepted as a response, and the
\* evaluation of an assembled frame of length L >= 1 reads the frame buffer
\* only at indices in [0, L).
C20_ShortFramesRejected ==
  [][ Evaluated =>
        /\ lastRecv'.rxCount < 4 => ~lastRecv'.accepted
        /\ lastRecv'.reads \subseteq 0..(lastRecv'.rxCount - 1)
    ]_vars

\* the two halves of C20 on their own
C20_NoShortAccept == [][ (Evaluated /\ lastRecv'.rxCount < 4) => ~lastRecv'.accepted ]_vars
C20_ReadsInside == [][ Evaluated => lastRecv'.reads \subseteq 0..(lastRecv'.rxCount - 1) ]_vars

\* what holds: frames of 1 or 2 bytes are never accepted, and frames of 2 or
\* more bytes are read inside their bounds
C20_ShortFramesButThree ==
  [][ Evaluated =>
        /\ lastRecv'.rxCount < 3 => ~lastRecv'.accepted
        /\ lastRecv'.rxCount >= 2 => lastRecv'.reads \subseteq 0..(lastRecv'.rxCount - 1)
    ]_vars

(***************************************************************************)
(* C21: which bytes an accepted response is made of.                       *)
(***************************************************************************)
\* the frame recvSerial evaluated in this step was accepted as a response
AcceptedStep == pc = "recvSerial" /\ lastRecv'.accepted

\* every byte of the frame evaluated in this step was drained while the transport
\* was in one of the states S, with the entry that is the head now at the head
DrainedOnlyIn(S) ==
  \A d \in lastRecv'.during : d.state \in S /\ d.head = SubSeq(queueHeaders, 1, 1)

\* C21 (as stated): every frame accepted as a response consists solely of bytes
\* that recvSerial drained while the transport was Waiting on the current head
\* entry; bytes drained while Idle, Sending or Delay are never part of an
\* accepted frame.
C21_OnlyWaitingBytes == [][AcceptedStep => DrainedOnlyIn({WAITING})]_vars

\* C21 (amended): a frame is accepted only while the transport is Waiting, and it
\* consists solely of bytes drained while the transport was in Delay or Waiting
\* on the current head entry: bytes drained while Idle or Sending are never part
\* of an accepted frame, bytes drained during the inter-frame delay after the
\* transmission can be.
C21_DelayOrWaitingBytes ==
  [][AcceptedStep => serialState = WAITING /\ DrainedOnlyIn({DELAY, WAITING})]_vars

\* a frame whose bytes were all drained during Delay has been accepted
C21_Witness ==
  /\ lastRecv.accepted
  /\ lastRecv.during # {}
  /\ \A d \in lastRecv.during : d.state = DELAY

====
